---- MODULE Spec2Model ----
(***************************************************************************)
(* Model of code_analysis_tool.py: the driver main(), the requirement      *)
(* check and the fourteen analysis steps.  One action per function; the    *)
(* file system, the search path, the user's answers and the exit status    *)
(* of every external program are inputs of the actions.                    *)
(***************************************************************************)
EXTENDS Integers, Sequences, FiniteSets, TLC

\* ---------------------------------------------------------------- bounds
MaxFiles == 2        \* files in the walked target tree
MaxRespLen == 2      \* characters of an answer typed at a prompt

\* ------------------------------------------------------------ environment
\* check_requirements: required_tools, in list order
required_tools == <<"mypy", "pylint", "radon", "pydeps", "coverage", "pyreverse", "dot">>

\* every executable name some step puts at argv[0] of subprocess.run
Executables == {"mypy", "pylint", "radon", "pydeps", "coverage", "pyreverse",
                "dot", "mprof", "python"}

\* subprocess.run raised FileNotFoundError: no process, no exit status
NoLaunch == -1

\* exit statuses of a launched program: zero and one non-zero value
ExitCodes == {0, 1}

\* the positional argument of the command line
CodePath == <<"r">>

\* 'tests', the subdirectory run_code_coverage_analysis looks for
TestsName == <<"t", "e", "s", "t", "s">>

\* characters an answer is made of
RespAlphabet == {" ", "m", "/"}

\* str.strip() removes these
Whitespace == {" "}

\* the regular files os.path.isfile finds: <target>/m and /m
ScriptFiles == {<<"r", "/", "m">>, <<"/", "m">>}

\* files os.walk may meet in the target tree
FilePool == {[dir |-> "a", stem |-> "x", ext |-> ".py"],
             [dir |-> "b", stem |-> "x", ext |-> ".py"],
             [dir |-> "a", stem |-> "y", ext |-> ".py"],
             [dir |-> "a", stem |-> "r", ext |-> ".md"]}

AST_OUTPUT_FORMAT == ".txt"

\* classes_classes.dot, classes_packages.dot
diagram_files == <<"classes_classes.dot", "classes_packages.dot">>

\* ---------------------------------------------------------------- helpers
Range(s) == {s[k] : k \in DOMAIN s}

SeqsUpTo(S, n) == UNION {[1..k -> S] : k \in 0..n}

\* the answers Prompt.ask can return
Responses == SeqsUpTo(RespAlphabet, MaxRespLen)

RECURSIVE LStrip(_)
LStrip(s) == IF s # <<>> /\ s[1] \in Whitespace THEN LStrip(Tail(s)) ELSE s

RECURSIVE RStrip(_)
RStrip(s) == IF s # <<>> /\ s[Len(s)] \in Whitespace
             THEN RStrip(SubSeq(s, 1, Len(s) - 1)) ELSE s

\* str.strip()
StripNone(s) == s
Strip(s) == RStrip(LStrip(s))

\* os.path.join(a, b): an absolute b discards a
PathJoin(a, b) ==
    IF b # <<>> /\ b[1] = "/" THEN b
    ELSE IF a # <<>> /\ a[Len(a)] = "/" THEN a \o b
    ELSE a \o <<"/">> \o b

\* os.path.isfile
isfile(p) == p \in ScriptFiles

\* the loop of check_requirements over a list of tools, shutil.which on each
RECURSIVE MissingFirstOnly(_, _)
MissingFirstOnly(tools, onPath) ==
    IF tools = <<>> THEN <<>>
    ELSE IF Head(tools) \notin onPath THEN <<Head(tools)>>
    ELSE MissingFirstOnly(Tail(tools), onPath)

RECURSIVE MissingTools(_, _)
MissingTools(tools, onPath) ==
    IF tools = <<>> THEN <<>>
    ELSE (IF Head(tools) \notin onPath THEN <<Head(tools)>> ELSE <<>>)
         \o MissingTools(Tail(tools), onPath)

\* the results subprocess.run can have for argv[0] = exe
Outcomes(exe, onPath) == IF exe \in onPath THEN ExitCodes ELSE {NoLaunch}

\* subprocess.run(cmd, check=True) raises
RaisesChecked(rc) == rc # 0
\* subprocess.run(cmd, check=False) raises
RaisesUnchecked(rc) == rc = NoLaunch

Cmd(exe, sub, arg, rc) == [exe |-> exe, sub |-> sub, arg |-> arg, rc |-> rc]

\* ast_output_file = join(ast_output_dir, file + AST_OUTPUT_FORMAT)
DumpName(f) == <<f.stem, f.ext, AST_OUTPUT_FORMAT>>

\* file.endswith('.py')
IsPy(f) == f.ext = ".py"

\* the trees the target path can hold
Trees == {t \in SUBSET FilePool : Cardinality(t) <= MaxFiles}

\* os.walk visits a directory's files together; the order is the listing's
WalkOrders(t) ==
    {o \in [1..Cardinality(t) -> t] :
        /\ \A a, b \in DOMAIN o : a # b => o[a] # o[b]
        /\ \A a, b, c \in DOMAIN o :
              (a < b /\ b < c /\ o[a].dir = o[c].dir) => o[b].dir = o[a].dir}

\* the body of the two loops of run_ast_analysis over the walk order:
\* the dump directory's content, dump file name -> the file whose dump it holds
RECURSIVE WriteDumps(_, _, _)
WriteDumps(order, bad, out) ==
    IF order = <<>> THEN out
    ELSE LET f == Head(order)
             n == DumpName(f)
             o2 == IF IsPy(f) /\ f \notin bad
                   THEN [k \in DOMAIN out \cup {n} |-> IF k = n THEN f ELSE out[k]]
                   ELSE out
         IN WriteDumps(Tail(order), bad, o2)

\* the files of the walk that were read and parsed
ParsedFiles(order, bad) == {f \in Range(order) : IsPy(f) /\ f \notin bad}

\* one 'Failed to process' line per file that raised
FailedLines(order, bad) ==
    [k \in 1..Cardinality({f \in Range(order) : IsPy(f) /\ f \in bad}) |-> "file_failed"]

\* ------------------------------------------------------------------ state
VARIABLES
    pc,             \* "main", "check", "steps", "exited"
    exitStatus,     \* -1 while running, then the process's exit status
    pathExists,     \* os.path.exists(code_path)
    avail,          \* the executables shutil.which resolves
    whichLog,       \* the names shutil.which was asked for, in order
    missing_tools,  \* check_requirements' list
    i,              \* the position of the for loop of main: the next step
    started,        \* the steps called so far, in order
    finished,       \* the steps that returned, in order
    banner,         \* 'Code Analysis Completed' was printed
    cmds,           \* subprocess.run calls of the step last called
    msgs,           \* console lines of the step last called (after its title)
    prompts,        \* Prompt.ask calls of the step last called
    main_script,    \* the answer of the step last called
    tests_seen,     \* os.path.exists(tests_dir) as the step last called saw it
    parsed,         \* files the step last called read and parsed
    ast_output,     \* ast_output/: dump file name -> source file dumped in it
    artifacts       \* report files and directories that exist in the cwd

vars == <<pc, exitStatus, pathExists, avail, whichLog, missing_tools, i, started,
          finished, banner, cmds, msgs, prompts, main_script, tests_seen, parsed,
          ast_output, artifacts>>

env == <<pathExists, avail>>
stepvars == <<i, started, finished, cmds, msgs, prompts, main_script, tests_seen,
              parsed, ast_output, artifacts>>

EmptyMap == [k \in {} |-> k]

Init ==
    /\ pc = "main"
    /\ exitStatus = -1
    /\ pathExists \in BOOLEAN
    /\ avail \in SUBSET Executables
    /\ whichLog = <<>>
    /\ missing_tools = <<>>
    /\ i = 1
    /\ started = <<>>
    /\ finished = <<>>
    /\ banner = FALSE
    /\ cmds = <<>>
    /\ msgs = <<>>
    /\ prompts = 0
    /\ main_script = <<>>
    /\ tests_seen = FALSE
    /\ parsed = {}
    /\ ast_output = EmptyMap
    /\ artifacts = {}

\* ------------------------------------------------------------------- main
\* main, up to the existence check of the path
main_check_path_lax ==
    /\ pc = "main"
    /\ pc' = "check"
    /\ UNCHANGED <<exitStatus, env, whichLog, missing_tools, banner, stepvars>>

main_check_path ==
    /\ pc = "main"
    /\ IF ~pathExists
       THEN pc' = "exited" /\ exitStatus' = 1
       ELSE pc' = "check" /\ UNCHANGED exitStatus
    /\ UNCHANGED <<env, whichLog, missing_tools, banner, stepvars>>

check_requirements ==
    /\ pc = "check"
    /\ whichLog' = required_tools
    /\ missing_tools' = MissingTools(required_tools, avail)
    /\ IF missing_tools' # <<>>
       THEN pc' = "exited" /\ exitStatus' = 1
       ELSE pc' = "steps" /\ UNCHANGED exitStatus
    /\ UNCHANGED <<env, banner, stepvars>>

\* what one call analysis_func(code_path, console) did
Quiet == [raised |-> FALSE, cmds |-> <<>>, msgs |-> <<>>, prompts |-> 0,
          main_script |-> <<>>, tests_seen |-> FALSE, parsed |-> {},
          dumps |-> EmptyMap, arts |-> {}]

\* the body of the for loop of main: call step k; an exception that leaves the
\* step leaves main, and the interpreter exits with status 1
Call(k, r) ==
    /\ pc = "steps"
    /\ i = k
    /\ started' = Append(started, k)
    /\ cmds' = r.cmds
    /\ msgs' = r.msgs
    /\ prompts' = r.prompts
    /\ main_script' = r.main_script
    /\ tests_seen' = r.tests_seen
    /\ parsed' = r.parsed
    /\ ast_output' = [n \in DOMAIN ast_output \cup DOMAIN r.dumps |->
                         IF n \in DOMAIN r.dumps THEN r.dumps[n] ELSE ast_output[n]]
    /\ artifacts' = artifacts \cup r.arts
    /\ IF r.raised
       THEN /\ pc' = "exited"
            /\ exitStatus' = 1
            /\ UNCHANGED <<i, finished>>
       ELSE /\ finished' = Append(finished, k)
            /\ i' = i + 1
            /\ UNCHANGED <<pc, exitStatus>>
    /\ UNCHANGED <<env, whichLog, missing_tools, banner>>

\* the end of main: the loop is exhausted
main_finish ==
    /\ pc = "steps"
    /\ i = 15
    /\ banner' = TRUE
    /\ pc' = "exited"
    /\ exitStatus' = 0
    /\ UNCHANGED <<env, whichLog, missing_tools, stepvars>>

\* ------------------------------------------------------------------ steps
\* 1: os.makedirs is outside the try; each file has its own try
AstStep(mk, order, bad) ==
    IF ~mk THEN [Quiet EXCEPT !.raised = TRUE]
    ELSE [Quiet EXCEPT !.parsed = ParsedFiles(order, bad),
                       !.dumps = WriteDumps(order, bad, EmptyMap),
                       !.msgs = FailedLines(order, bad)]

run_ast_analysis ==
    \E mk \in BOOLEAN, tree \in Trees :
        \E order \in WalkOrders(tree), bad \in SUBSET tree :
            Call(1, AstStep(mk, order, bad))

\* 2: prints that the step is skipped
run_cfg_analysis == Call(2, [Quiet EXCEPT !.msgs = <<"unsupported">>])

\* 3 and 7: subprocess.run(check=True) inside try / except Exception
GraphStep(out, rc) ==
    IF RaisesChecked(rc)
    THEN [Quiet EXCEPT !.cmds = <<Cmd("pydeps", "", CodePath, rc)>>,
                       !.msgs = <<"failed">>]
    ELSE [Quiet EXCEPT !.cmds = <<Cmd("pydeps", "", CodePath, rc)>>,
                       !.msgs = <<"saved">>,
                       !.arts = {out}]

run_call_graph_analysis ==
    \E rc \in Outcomes("pydeps", avail) : Call(3, GraphStep("call_graph.dot", rc))

\* 4, 5, 6 and 13: open(report, 'w'), subprocess.run(check=False) inside
\* try / except subprocess.CalledProcessError
ReportStep(exe, sub, out, openOk, rc) ==
    IF ~openOk THEN [Quiet EXCEPT !.raised = TRUE]
    ELSE IF RaisesUnchecked(rc)
    THEN [Quiet EXCEPT !.raised = TRUE,
                       !.cmds = <<Cmd(exe, sub, CodePath, rc)>>,
                       !.arts = {out}]
    ELSE [Quiet EXCEPT !.cmds = <<Cmd(exe, sub, CodePath, rc)>>,
                       !.msgs = <<"saved">>,
                       !.arts = {out}]

run_data_flow_analysis ==
    \E openOk \in BOOLEAN, rc \in Outcomes("mypy", avail) :
        Call(4, ReportStep("mypy", "", "data_flow_analysis.txt", openOk, rc))

run_static_code_analysis ==
    \E openOk \in BOOLEAN, rc \in Outcomes("pylint", avail) :
        Call(5, ReportStep("pylint", "", "lint_report.txt", openOk, rc))

run_cyclomatic_complexity_analysis ==
    \E openOk \in BOOLEAN, rc \in Outcomes("radon", avail) :
        Call(6, ReportStep("radon", "cc", "cyclomatic_complexity.txt", openOk, rc))

run_dependency_graph_analysis ==
    \E rc \in Outcomes("pydeps", avail) : Call(7, GraphStep("dependency_graph.dot", rc))

\* 8: coverage run, then coverage html, both check=True, try / except Exception
CoverageStepNoTestsCheck(tests, rc1, rc2) ==
    LET run == Cmd("coverage", "run", PathJoin(CodePath, TestsName), rc1)
        html == Cmd("coverage", "html", <<>>, rc2)
        seen == [Quiet EXCEPT !.tests_seen = tests]
    IN IF RaisesChecked(rc1)
       THEN [seen EXCEPT !.cmds = <<run>>, !.msgs = <<"failed">>]
       ELSE IF RaisesChecked(rc2)
       THEN [seen EXCEPT !.cmds = <<run, html>>, !.msgs = <<"failed">>]
       ELSE [seen EXCEPT !.cmds = <<run, html>>, !.msgs = <<"saved">>,
                         !.arts = {"htmlcov"}]

CoverageStepUnchecked(tests, rc1, rc2) ==
    LET run == Cmd("coverage", "run", PathJoin(CodePath, TestsName), rc1)
        html == Cmd("coverage", "html", <<>>, rc2)
        seen == [Quiet EXCEPT !.tests_seen = tests]
    IN IF ~tests THEN [seen EXCEPT !.msgs = <<"skipped">>]
       ELSE IF RaisesUnchecked(rc1)
       THEN [seen EXCEPT !.cmds = <<run>>, !.msgs = <<"failed">>]
       ELSE IF RaisesChecked(rc2)
       THEN [seen EXCEPT !.cmds = <<run, html>>, !.msgs = <<"failed">>]
       ELSE [seen EXCEPT !.cmds = <<run, html>>, !.msgs = <<"saved">>,
                         !.arts = {"htmlcov"}]

CoverageStep(tests, rc1, rc2) ==
    LET run == Cmd("coverage", "run", PathJoin(CodePath, TestsName), rc1)
        html == Cmd("coverage", "html", <<>>, rc2)
        seen == [Quiet EXCEPT !.tests_seen = tests]
    IN IF ~tests THEN [seen EXCEPT !.msgs = <<"skipped">>]
       ELSE IF RaisesChecked(rc1)
       THEN [seen EXCEPT !.cmds = <<run>>, !.msgs = <<"failed">>]
       ELSE IF RaisesChecked(rc2)
       THEN [seen EXCEPT !.cmds = <<run, html>>, !.msgs = <<"failed">>]
       ELSE [seen EXCEPT !.cmds = <<run, html>>, !.msgs = <<"saved">>,
                         !.arts = {"htmlcov"}]

run_code_coverage_analysis ==
    \E tests \in BOOLEAN :
        \E rc1, rc2 \in Outcomes("coverage", avail) :
            Call(8, CoverageStep(tests, rc1, rc2))

\* 9, 10, 11: Prompt.ask is outside the try; the two early returns
Asked(promptOk, ans) ==
    IF ~promptOk THEN [Quiet EXCEPT !.raised = TRUE, !.prompts = 1]
    ELSE [Quiet EXCEPT !.prompts = 1, !.main_script = ans]

\* the answer passes both early returns
Runnable(ans) == Strip(ans) # <<>> /\ isfile(PathJoin(CodePath, ans))

\* what the early returns print
EarlyReturn(asked) ==
    IF Strip(asked.main_script) = <<>>
    THEN [asked EXCEPT !.msgs = <<"skipped">>]
    ELSE [asked EXCEPT !.msgs = <<"notexist">>]

MemoryStep(promptOk, ans, rc1, rc2) ==
    LET asked == Asked(promptOk, ans)
        script == PathJoin(CodePath, ans)
        run == Cmd("mprof", "run", script, rc1)
        plot == Cmd("mprof", "plot", <<>>, rc2)
    IN IF ~promptOk THEN asked
       ELSE IF ~Runnable(ans) THEN EarlyReturn(asked)
       ELSE IF RaisesChecked(rc1)
       THEN [asked EXCEPT !.cmds = <<run>>, !.msgs = <<"running", "failed">>]
       ELSE IF RaisesChecked(rc2)
       THEN [asked EXCEPT !.cmds = <<run, plot>>, !.msgs = <<"running", "failed">>]
       ELSE [asked EXCEPT !.cmds = <<run, plot>>, !.msgs = <<"running", "saved">>,
                          !.arts = {"memory_profile.txt"}]

run_memory_usage_profiling ==
    \E promptOk \in BOOLEAN, ans \in Responses :
        \E rc1, rc2 \in Outcomes("mprof", avail) :
            Call(9, MemoryStep(promptOk, ans, rc1, rc2))

ProfileStep(promptOk, ans, rc) ==
    LET asked == Asked(promptOk, ans)
        run == Cmd("python", "cProfile", PathJoin(CodePath, ans), rc)
    IN IF ~promptOk THEN asked
       ELSE IF ~Runnable(ans) THEN EarlyReturn(asked)
       ELSE IF RaisesChecked(rc)
       THEN [asked EXCEPT !.cmds = <<run>>, !.msgs = <<"running", "failed">>]
       ELSE [asked EXCEPT !.cmds = <<run>>, !.msgs = <<"running", "saved">>,
                          !.arts = {"performance_profile.txt"}]

run_execution_profiling ==
    \E promptOk \in BOOLEAN, ans \in Responses, rc \in Outcomes("python", avail) :
        Call(10, ProfileStep(promptOk, ans, rc))

\* 11: open(log, 'w') and subprocess.run(check=False) inside try / except Exception
TypeguardStep(promptOk, ans, openOk, rc) ==
    LET asked == Asked(promptOk, ans)
        run == Cmd("python", "typeguard", PathJoin(CodePath, ans), rc)
    IN IF ~promptOk THEN asked
       ELSE IF ~Runnable(ans) THEN EarlyReturn(asked)
       ELSE IF ~openOk
       THEN [asked EXCEPT !.msgs = <<"running", "failed">>]
       ELSE IF RaisesUnchecked(rc)
       THEN [asked EXCEPT !.cmds = <<run>>, !.msgs = <<"running", "failed">>,
                          !.arts = {"runtime_type_checking.txt"}]
       ELSE [asked EXCEPT !.cmds = <<run>>, !.msgs = <<"running", "saved">>,
                          !.arts = {"runtime_type_checking.txt"}]

run_runtime_type_checking ==
    \E promptOk \in BOOLEAN, ans \in Responses, openOk \in BOOLEAN :
        \E rc \in Outcomes("python", avail) :
            Call(11, TypeguardStep(promptOk, ans, openOk, rc))

\* 12: pyreverse with check=True, then os.path.exists on each diagram
DiagramLines(present) ==
    [k \in DOMAIN diagram_files |->
        IF diagram_files[k] \in present THEN "saved" ELSE "diagram_missing"]

DiagramStep(rc, present) ==
    IF RaisesChecked(rc)
    THEN [Quiet EXCEPT !.cmds = <<Cmd("pyreverse", "", CodePath, rc)>>,
                       !.msgs = <<"failed">>]
    ELSE [Quiet EXCEPT !.cmds = <<Cmd("pyreverse", "", CodePath, rc)>>,
                       !.msgs = DiagramLines(present),
                       !.arts = present]

run_class_inheritance_visualization ==
    \E rc \in Outcomes("pyreverse", avail), present \in SUBSET Range(diagram_files) :
        Call(12, DiagramStep(rc, present))

run_semantic_code_analysis ==
    \E openOk \in BOOLEAN, rc \in Outcomes("mypy", avail) :
        Call(13, ReportStep("mypy", "", "semantic_analysis.txt", openOk, rc))

\* 14: prints that the step is not automated
run_automated_test_generation == Call(14, [Quiet EXCEPT !.msgs = <<"unsupported">>])

Next ==
    \/ main_check_path
    \/ check_requirements
    \/ run_ast_analysis
    \/ run_cfg_analysis
    \/ run_call_graph_analysis
    \/ run_data_flow_analysis
    \/ run_static_code_analysis
    \/ run_cyclomatic_complexity_analysis
    \/ run_dependency_graph_analysis
    \/ run_code_coverage_analysis
    \/ run_memory_usage_profiling
    \/ run_execution_profiling
    \/ run_runtime_type_checking
    \/ run_class_inheritance_visualization
    \/ run_semantic_code_analysis
    \/ run_automated_test_generation
    \/ main_finish

Spec == Init /\ [][Next]_vars

\* ----------------------------------------------------------------- claims
\* the step last called, 0 before the first
Cur == IF started = <<>> THEN 0 ELSE started[Len(started)]

\* the step last called returned to main
Returned == finished # <<>> /\ finished[Len(finished)] = Cur

AllSteps == [k \in 1..14 |-> k]

IsPrefixOfAllSteps(s) == Len(s) <= 14 /\ \A k \in DOMAIN s : s[k] = k

Unresolved == {t \in Range(required_tools) : t \notin avail}

IsBlank(s) == \A k \in DOMAIN s : s[k] = " "

Count(s, m) == Cardinality({k \in DOMAIN s : s[k] = m})

\* the report file of an interactive step
PromptStepFile(k) ==
    CASE k = 9 -> "memory_profile.txt"
      [] k = 10 -> "performance_profile.txt"
      [] OTHER -> "runtime_type_checking.txt"

\* C1: when the target path does not exist the run can only end with exit
\* status 1, and shutil.which is never called, no step is called, nothing is
\* asked, no program is launched and no output file or directory is created.
C1_MissingPathStopsEverything ==
    ~pathExists =>
        /\ pc \in {"main", "exited"}
        /\ pc = "exited" => exitStatus = 1
        /\ whichLog = <<>>
        /\ started = <<>>
        /\ prompts = 0
        /\ cmds = <<>>
        /\ artifacts = {}
        /\ ast_output = EmptyMap
        /\ ~banner

C1_Witness == ~pathExists /\ pc = "exited" /\ exitStatus = 1

\* C2: once the requirement check has run on an existing path, the missing
\* list holds exactly the required tools that are not resolvable, each once;
\* if it is not empty the run has ended with a non-zero status and no step was
\* ever called; if it is empty the run goes on and the first step called is 1.
C2_MissingToolsGate ==
    (pathExists /\ pc \in {"steps", "exited"}) =>
        /\ whichLog = required_tools
        /\ Range(missing_tools) = Unresolved
        /\ Len(missing_tools) = Cardinality(Unresolved)
        /\ Unresolved # {} =>
              pc = "exited" /\ exitStatus > 0 /\ started = <<>> /\ cmds = <<>>
        /\ (Unresolved = {} /\ started = <<>>) =>
              pc = "steps" /\ i = 1 /\ exitStatus = -1
        /\ started # <<>> => started[1] = 1

C2_Witness ==
    pathExists /\ pc = "exited" /\ Len(missing_tools) >= 2 /\ started = <<>>

\* C3: the steps are called in the order 1..14, one at a time, none twice, and
\* a run that passed both gates ends only after all fourteen were called and
\* have finished.
C3_AllStepsInOrder ==
    /\ IsPrefixOfAllSteps(started)
    /\ IsPrefixOfAllSteps(finished)
    /\ Len(finished) <= Len(started)
    /\ Len(started) <= Len(finished) + 1
    /\ (pc = "exited" /\ pathExists /\ Unresolved = {}) =>
          started = AllSteps /\ finished = AllSteps

\* C4: every step that is called returns normally whatever fails inside it,
\* and a run that called a step ends with the banner and exit status 0.
C4_NoFailureLeavesAStep ==
    /\ (started # <<>> /\ pc = "exited") => (banner /\ exitStatus = 0)
    /\ started # <<>> => Returned

\* C5: a program that exited non-zero makes its step print a failure line and
\* no success line.
C5_NonZeroExitIsFailure ==
    \A k \in DOMAIN cmds :
        cmds[k].rc \notin {0, NoLaunch} =>
            Count(msgs, "failed") >= 1 /\ Count(msgs, "saved") = 0

\* C6: when step 8 finds no tests directory it launches nothing, prints the
\* skip notice and no failure line, and returns so that step 9 is next; the
\* coverage program is launched only by step 8 and only when the directory
\* exists.
C6_CoverageSkippedWithoutTests ==
    /\ (Cur = 8 /\ ~tests_seen) =>
          /\ cmds = <<>>
          /\ msgs = <<"skipped">>
          /\ "htmlcov" \notin artifacts
          /\ Returned /\ pc = "steps" /\ i = 9
    /\ \A k \in DOMAIN cmds :
          cmds[k].exe = "coverage" => (Cur = 8 /\ tests_seen)
    /\ Cur = 9 => finished[Len(started) - 1] = 8

C6_Witness == Cur = 8 /\ ~tests_seen /\ msgs = <<"skipped">> /\ i = 9

C8_EveryLaunchedToolWasChecked ==
    \A k \in DOMAIN cmds :
        cmds[k].exe \in Range(required_tools) /\ cmds[k].exe \in Range(whichLog)

\* C9: after step 1 every file that was read and parsed has a dump file of its
\* own that holds its dump.
C9_OneDumpPerSourceFile ==
    (Cur = 1 /\ Returned) =>
        /\ \A f \in parsed :
              DumpName(f) \in DOMAIN ast_output /\ ast_output[DumpName(f)] = f
        /\ Cardinality(DOMAIN ast_output) = Cardinality(parsed)

\* C10: in steps 8 and 9 the second command is launched only after the first
\* exited with status zero, the success line is printed only if both exited
\* zero, a command that failed gives exactly one failure line and no success
\* line, and the test discovery of step 8 is rooted at <target>/tests.
C10_ChainedCommands ==
    Cur \in {8, 9} =>
        /\ Len(cmds) <= 2
        /\ Len(cmds) = 2 =>
              /\ cmds[1].sub = "run" /\ cmds[1].rc = 0
              /\ cmds[2].sub = (IF Cur = 8 THEN "html" ELSE "plot")
              /\ cmds[2].exe = cmds[1].exe
        /\ Count(msgs, "saved") >= 1 =>
              /\ Len(cmds) = 2
              /\ cmds[1].rc = 0 /\ cmds[2].rc = 0
        /\ (\E k \in DOMAIN cmds : cmds[k].rc # 0) =>
              Count(msgs, "failed") = 1 /\ Count(msgs, "saved") = 0
        /\ (Cur = 8 /\ cmds # <<>>) =>
              /\ cmds[1].sub = "run"
              /\ cmds[1].arg = <<"r", "/", "t", "e", "s", "t", "s">>

C10_Witness ==
    Cur = 8 /\ Len(cmds) = 2 /\ cmds[1].rc = 0 /\ cmds[2].rc = 1 /\ msgs = <<"failed">>

====
